---- MODULE Spec2Model ----
(***************************************************************************)
(* A model of the MLM referral backend of src/main.py: the three MongoDB   *)
(* collections the handlers touch and the five HTTP handlers.              *)
(*                                                                         *)
(* Spec      every handler is one atomic action (requests handled one      *)
(*           after the other, each to completion).                         *)
(* SpecConc  POST /user_data and GET /payments split at their database     *)
(*           calls, run by several workers whose calls interleave.         *)
(*                                                                         *)
(* Strings stand for the JSON/BSON values.  A collection is the sequence   *)
(* of its documents in insertion (natural) order.  The timestamps          *)
(* (requested_at, last_updated) and the driver's _id are written and never *)
(* read back by a handler's logic; the documents here omit them.           *)
(***************************************************************************)
EXTENDS Integers, Sequences, FiniteSets, TLC

VARIABLES user_data, user_payments, withdrawal_requests, response, proc

vars == <<user_data, user_payments, withdrawal_requests, response, proc>>

(***************************************************************************)
(* Bounds of the model.                                                    *)
(***************************************************************************)
NumUids == 2
NumCodes == 2
MaxWithdrawals == 2
NumProcs == 2

UidNames == <<"uid1", "uid2", "uid3", "uid4", "uid5">>
CodeNames == <<"A1B2C3D4E5", "F6G7H8I9J0", "K1L2M3N4O5", "P6Q7R8S9T0", "U1V2W3X4Y5">>

\* firebase_uid values the requests carry
Uids == {UidNames[i] : i \in 1..NumUids}

\* the strings random.choices can produce (10 characters of A-Z0-9)
Codes == {CodeNames[i] : i \in 1..NumCodes}

\* Python's None / JSON null
None == "<None>"

\* find_one's result when no document matches
NoDoc == [missing |-> TRUE]

Range(s) == {s[i] : i \in 1..Len(s)}

\* Python truthiness of an Optional[str]
Truthy(v) == v # None /\ v # ""

(***************************************************************************)
(* The request models.                                                     *)
(***************************************************************************)
ProfileFields ==
  {"name", "email", "reference_code", "sex", "state", "district", "pin_code", "bank_details"}

\* UserData: the parsed body; every field the JSON body omits gets its default None
UserData(uid, body) ==
  [f \in {"firebase_uid"} \cup ProfileFields |->
     IF f = "firebase_uid" THEN uid
     ELSE IF f \in DOMAIN body THEN body[f] ELSE None]

\* BankDetails, as the one opaque value data.dict() stores for it
BankDetails == "{bank_name: SBI, account_number: 42, ifsc_code: SBIN0, branch_name: Pune}"

SampleValue(f) ==
  CASE f = "name" -> "Asha"
    [] f = "email" -> "asha@example.com"
    [] f = "sex" -> "F"
    [] f = "state" -> "MH"
    [] f = "district" -> "Pune"
    [] f = "pin_code" -> "411001"
    [] f = "bank_details" -> BankDetails
    [] OTHER -> None

\* the JSON bodies of POST /user_data (without firebase_uid), as the keys present and
\* their values: nothing but the uid, a profile without reference code, a reference code
Bodies ==
  {[f \in {} |-> None]}
    \cup {[f \in ProfileFields \ {"reference_code"} |-> SampleValue(f)]}
    \cup {[f \in {"reference_code"} |-> c] : c \in Codes}

\* WithdrawalRequest.amount
Amounts == {100}

(***************************************************************************)
(* The database calls.                                                     *)
(***************************************************************************)
Matching(coll, field, value) == {i \in 1..Len(coll) : coll[i][field] = value}

First(S) == CHOOSE i \in S : \A j \in S : i <= j

\* collection.find_one({field: value})
find_one(coll, field, value) ==
  LET found == Matching(coll, field, value)
  IN IF found = {} THEN NoDoc ELSE coll[First(found)]

\* the document after $set (and, on insert, $setOnInsert) is applied to it
Merge(doc, fields) ==
  [f \in DOMAIN doc \cup DOMAIN fields |-> IF f \in DOMAIN fields THEN fields[f] ELSE doc[f]]

\* update_many in place of update_one: $set reaches every stored document
update_many(coll, uid, set, setOnInsert) ==
  IF Matching(coll, "firebase_uid", uid) = {}
  THEN Append(coll, Merge(Merge([firebase_uid |-> uid], set), setOnInsert))
  ELSE [i \in 1..Len(coll) |-> Merge(coll[i], set)]

\* collection.update_one({"firebase_uid": uid}, {"$set": .., "$setOnInsert": ..}, upsert=True)
update_one(coll, uid, set, setOnInsert) ==
  IF Matching(coll, "firebase_uid", uid) = {}
  THEN Append(coll, Merge(Merge([firebase_uid |-> uid], set), setOnInsert))
  ELSE [coll EXCEPT ![First(Matching(coll, "firebase_uid", uid))] = Merge(@, set)]

\* collection.insert_one(doc)
insert_one(coll, doc) == Append(coll, doc)

\* dict.pop(key, None)
Pop(d, key) == [f \in DOMAIN d \ {key} |-> d[f]]

(***************************************************************************)
(* Responses: what a handler returns, or the HTTPException it raises.  The  *)
(* variable response holds the latest one.  The framework's encoding of a  *)
(* returned value into the HTTP reply is not part of the handlers.         *)
(***************************************************************************)
HTTPException(op, status_code, detail) ==
  [op |-> op, status |-> status_code, body |-> [detail |-> detail]]

Ok(op, body) == [op |-> op, status |-> 200, body |-> body]

Init ==
  /\ user_data = <<>>
  /\ user_payments = <<>>
  /\ withdrawal_requests = <<>>
  /\ response = [op |-> "none", status |-> 0, body |-> [detail |-> "none"]]
  /\ proc = [p \in 1..NumProcs |-> [pc |-> "idle"]]

(***************************************************************************)
(* POST /user_data                                                         *)
(***************************************************************************)
\* the generator without its collision check
generate_any_referral_code(coll) == Codes

\* the codes the retry loop can return: a random code no stored document carries
generate_unique_referral_code(coll) ==
  {code \in Codes : find_one(coll, "referral_code", code) = NoDoc}

\* the referrer looked up by the wrong field
Referrer_by_reference_code(coll, reference_code) ==
  find_one(coll, "reference_code", reference_code)

\* user_data.find_one({"referral_code": reference_code})
Referrer(coll, reference_code) == find_one(coll, "referral_code", reference_code)

\* the branch for a new user, once its reference code is resolved: the handler's locals
NewUser(referral_code, reference_code, referrer) ==
  [referral_code |-> referral_code,
   payment_status |-> FALSE,
   referred_by_name |-> IF Truthy(reference_code) THEN referrer.name ELSE None,
   reference_code |-> reference_code]

\* the existing user's code read from the wrong key
Preserved_wrong_key(existing_user) ==
  [referral_code |-> existing_user.reference_code_used,
   payment_status |-> existing_user.payment_status,
   referred_by_name |-> existing_user.referred_by,
   reference_code |-> existing_user.reference_code_used]

\* the branch for an existing user: the handler's locals
Preserved(existing_user) ==
  [referral_code |-> existing_user.referral_code,
   payment_status |-> existing_user.payment_status,
   referred_by_name |-> existing_user.referred_by,
   reference_code |-> existing_user.reference_code_used]

\* the upsert of the user document
Upsert(coll, update_fields, locals) ==
  update_one(coll, update_fields.firebase_uid,
             Pop(update_fields, "referral_code"),
             [referral_code |-> locals.referral_code,
              payment_status |-> locals.payment_status,
              referred_by |-> locals.referred_by_name,
              reference_code_used |-> locals.reference_code])

\* the handler's return value
UserResponse(existing_user, locals) ==
  Ok("create_or_update_user",
     [message |-> IF existing_user = NoDoc THEN "User created" ELSE "User updated",
      referral_code |-> locals.referral_code,
      referred_by |-> locals.referred_by_name,
      reference_code_used |-> locals.reference_code])

InvalidReference == HTTPException("create_or_update_user", 400, "Invalid reference code")

create_or_update_user(uid, body) ==
  LET data == UserData(uid, body)
      existing_user == find_one(user_data, "firebase_uid", data.firebase_uid)
      update_fields == data
      reference_code == update_fields.reference_code
      referrer == Referrer(user_data, reference_code)
  IN /\ IF existing_user = NoDoc
        THEN \E referral_code \in generate_unique_referral_code(user_data) :
               IF Truthy(reference_code) /\ referrer = NoDoc
               THEN /\ response' = InvalidReference
                    /\ user_data' = user_data
               ELSE LET locals == NewUser(referral_code, reference_code, referrer)
                    IN /\ response' = UserResponse(existing_user, locals)
                       /\ user_data' = Upsert(user_data, update_fields, locals)
        ELSE LET locals == Preserved(existing_user)
             IN /\ response' = UserResponse(existing_user, locals)
                /\ user_data' = Upsert(user_data, update_fields, locals)
     /\ UNCHANGED <<user_payments, withdrawal_requests, proc>>

(***************************************************************************)
(* GET /user_data/{firebase_uid}                                           *)
(***************************************************************************)
get_user(firebase_uid) ==
  LET user == find_one(user_data, "firebase_uid", firebase_uid)
  IN /\ response' = IF user = NoDoc
                    THEN HTTPException("get_user", 404, "User not found")
                    ELSE Ok("get_user", user)
     /\ UNCHANGED <<user_data, user_payments, withdrawal_requests, proc>>

(***************************************************************************)
(* GET /team                                                               *)
(***************************************************************************)
\* the projection {"_id": 0, "name": 1, "referral_code": 1}
Projection(doc) == [name |-> doc.name, referral_code |-> doc.referral_code]

RECURSIVE Project(_)
Project(docs) ==
  IF docs = <<>> THEN <<>> ELSE <<Projection(Head(docs))>> \o Project(Tail(docs))

InCodes(doc, ref_codes) == doc.reference_code \in Range(ref_codes)

\* user_data.find({"reference_code": {"$in": ref_codes}}, projection)
find_users_by_referral(coll, ref_codes) ==
  Project(SelectSeq(coll, LAMBDA doc : InCodes(doc, ref_codes)))

\* [user["referral_code"] for user in users]
CodesOf(users) == [i \in 1..Len(users) |-> users[i].referral_code]

Level1(coll, root_referral_code) == find_users_by_referral(coll, <<root_referral_code>>)
Level2(coll, root_referral_code) ==
  find_users_by_referral(coll, CodesOf(Level1(coll, root_referral_code)))
\* level 3 queried with the codes of level 1
Level3_from_level_1(coll, root_referral_code) ==
  find_users_by_referral(coll, CodesOf(Level1(coll, root_referral_code)))

Level3(coll, root_referral_code) ==
  find_users_by_referral(coll, CodesOf(Level2(coll, root_referral_code)))

get_team(firebase_uid) ==
  LET user == find_one(user_data, "firebase_uid", firebase_uid)
  IN /\ response' =
          IF user = NoDoc THEN HTTPException("get_team", 404, "User not found")
          ELSE IF ~Truthy(user.referral_code)
          THEN HTTPException("get_team", 400, "Referral code not found for this user")
          ELSE Ok("get_team",
                  [level_1 |-> Level1(user_data, user.referral_code),
                   level_2 |-> Level2(user_data, user.referral_code),
                   level_3 |-> Level3(user_data, user.referral_code)])
     /\ UNCHANGED <<user_data, user_payments, withdrawal_requests, proc>>

(***************************************************************************)
(* GET /payments                                                           *)
(***************************************************************************)
empty_doc(firebase_uid) == [firebase_uid |-> firebase_uid, transactions |-> <<>>]

get_or_create_payment(firebase_uid) ==
  LET payment_doc == find_one(user_payments, "firebase_uid", firebase_uid)
      user_exists == find_one(user_data, "firebase_uid", firebase_uid)
  IN /\ IF payment_doc # NoDoc
        THEN /\ response' = Ok("get_or_create_payment", payment_doc)
             /\ user_payments' = user_payments
        ELSE IF user_exists = NoDoc
        THEN /\ response' = HTTPException("get_or_create_payment", 404, "User not found")
             /\ user_payments' = user_payments
        ELSE /\ user_payments' = insert_one(user_payments, empty_doc(firebase_uid))
             /\ response' = Ok("get_or_create_payment", empty_doc(firebase_uid))
     /\ UNCHANGED <<user_data, withdrawal_requests, proc>>

(***************************************************************************)
(* POST /withdrawal_request                                                *)
(***************************************************************************)
\* a stored null name replaced by the default of user.get("name", "Unknown")
request_doc_unknown_name(firebase_uid, name, amount) ==
  [firebase_uid |-> firebase_uid,
   name |-> IF name = None THEN "Unknown" ELSE name,
   amount |-> amount]

request_doc(firebase_uid, name, amount) ==
  [firebase_uid |-> firebase_uid, name |-> name, amount |-> amount]

raise_withdrawal_request(firebase_uid, amount) ==
  LET user == find_one(user_data, "firebase_uid", firebase_uid)
  IN /\ IF user = NoDoc
        THEN /\ response' = HTTPException("raise_withdrawal_request", 404, "User not found")
             /\ withdrawal_requests' = withdrawal_requests
        ELSE /\ Len(withdrawal_requests) < MaxWithdrawals
             /\ withdrawal_requests' =
                  insert_one(withdrawal_requests, request_doc(firebase_uid, user.name, amount))
             /\ response' = Ok("raise_withdrawal_request",
                               [message |-> "Withdrawal request submitted",
                                request |-> request_doc(firebase_uid, user.name, amount)])
     /\ UNCHANGED <<user_data, user_payments, proc>>

(***************************************************************************)
(* Requests handled one after the other, each to completion.               *)
(***************************************************************************)
PostUserData == \E uid \in Uids, body \in Bodies : create_or_update_user(uid, body)
GetUser == \E uid \in Uids : get_user(uid)
GetTeam == \E uid \in Uids : get_team(uid)
GetPayments == \E uid \in Uids : get_or_create_payment(uid)
PostWithdrawalRequest ==
  \E uid \in Uids, amount \in Amounts : raise_withdrawal_request(uid, amount)

Next ==
  \/ PostUserData
  \/ GetUser
  \/ GetTeam
  \/ GetPayments
  \/ PostWithdrawalRequest

Spec == Init /\ [][Next]_vars

\* POST /user_data alone
NextUsers == PostUserData

SpecUsers == Init /\ [][NextUsers]_vars

(***************************************************************************)
(* Workers whose database calls interleave: each step below is one         *)
(* database call of a handler together with the local code up to the next. *)
(***************************************************************************)
Procs == 1..NumProcs

Idle == [pc |-> "idle"]

\* main.py line 96
begin_create_or_update_user(p, uid, body) ==
  /\ proc[p].pc = "idle"
  /\ LET data == UserData(uid, body)
         existing_user == find_one(user_data, "firebase_uid", data.firebase_uid)
     IN proc' = [proc EXCEPT ![p] =
                   IF existing_user = NoDoc
                   THEN [pc |-> "generate", update_fields |-> data,
                         existing_user |-> existing_user]
                   ELSE [pc |-> "upsert", update_fields |-> data,
                         existing_user |-> existing_user,
                         locals |-> Preserved(existing_user)]]
  /\ UNCHANGED <<user_data, user_payments, withdrawal_requests, response>>

\* one turn of the retry loop of generate_unique_referral_code: a random code and
\* its collision check
generate_step(p) ==
  /\ proc[p].pc = "generate"
  /\ \E code \in Codes :
       LET reference_code == proc[p].update_fields.reference_code
       IN proc' =
            IF find_one(user_data, "referral_code", code) # NoDoc
            THEN proc
            ELSE IF Truthy(reference_code)
            THEN [proc EXCEPT ![p] =
                    [pc |-> "resolve", update_fields |-> proc[p].update_fields,
                     existing_user |-> proc[p].existing_user, referral_code |-> code]]
            ELSE [proc EXCEPT ![p] =
                    [pc |-> "upsert", update_fields |-> proc[p].update_fields,
                     existing_user |-> proc[p].existing_user,
                     locals |-> NewUser(code, reference_code, NoDoc)]]
  /\ UNCHANGED <<user_data, user_payments, withdrawal_requests, response>>

\* main.py lines 109-113
resolve_step(p) ==
  /\ proc[p].pc = "resolve"
  /\ LET reference_code == proc[p].update_fields.reference_code
         referrer == Referrer(user_data, reference_code)
     IN IF referrer = NoDoc
        THEN /\ response' = InvalidReference
             /\ proc' = [proc EXCEPT ![p] = Idle]
        ELSE /\ response' = response
             /\ proc' = [proc EXCEPT ![p] =
                           [pc |-> "upsert", update_fields |-> proc[p].update_fields,
                            existing_user |-> proc[p].existing_user,
                            locals |-> NewUser(proc[p].referral_code, reference_code,
                                               referrer)]]
  /\ UNCHANGED <<user_data, user_payments, withdrawal_requests>>

\* main.py lines 121-144
upsert_step(p) ==
  /\ proc[p].pc = "upsert"
  /\ user_data' = Upsert(user_data, proc[p].update_fields, proc[p].locals)
  /\ response' = UserResponse(proc[p].existing_user, proc[p].locals)
  /\ proc' = [proc EXCEPT ![p] = Idle]
  /\ UNCHANGED <<user_payments, withdrawal_requests>>

\* main.py lines 198-200
begin_get_or_create_payment(p, firebase_uid) ==
  /\ proc[p].pc = "idle"
  /\ LET payment_doc == find_one(user_payments, "firebase_uid", firebase_uid)
     IN IF payment_doc # NoDoc
        THEN /\ response' = Ok("get_or_create_payment", payment_doc)
             /\ proc' = proc
        ELSE /\ response' = response
             /\ proc' = [proc EXCEPT ![p] =
                           [pc |-> "check_user", firebase_uid |-> firebase_uid]]
  /\ UNCHANGED <<user_data, user_payments, withdrawal_requests>>

\* main.py lines 203-205
check_user_step(p) ==
  /\ proc[p].pc = "check_user"
  /\ LET user_exists == find_one(user_data, "firebase_uid", proc[p].firebase_uid)
     IN IF user_exists = NoDoc
        THEN /\ response' = HTTPException("get_or_create_payment", 404, "User not found")
             /\ proc' = [proc EXCEPT ![p] = Idle]
        ELSE /\ response' = response
             /\ proc' = [proc EXCEPT ![p] =
                           [pc |-> "insert", firebase_uid |-> proc[p].firebase_uid]]
  /\ UNCHANGED <<user_data, user_payments, withdrawal_requests>>

\* main.py lines 208-216
insert_step(p) ==
  /\ proc[p].pc = "insert"
  /\ user_payments' = insert_one(user_payments, empty_doc(proc[p].firebase_uid))
  /\ response' = Ok("get_or_create_payment", empty_doc(proc[p].firebase_uid))
  /\ proc' = [proc EXCEPT ![p] = Idle]
  /\ UNCHANGED <<user_data, withdrawal_requests>>

BeginPostUserData ==
  \E p \in Procs, uid \in Uids, body \in Bodies : begin_create_or_update_user(p, uid, body)
Generate == \E p \in Procs : generate_step(p)
Resolve == \E p \in Procs : resolve_step(p)
UpsertUser == \E p \in Procs : upsert_step(p)
BeginGetPayments == \E p \in Procs, uid \in Uids : begin_get_or_create_payment(p, uid)
CheckUser == \E p \in Procs : check_user_step(p)
InsertPayment == \E p \in Procs : insert_step(p)

NextConc ==
  \/ BeginPostUserData
  \/ Generate
  \/ Resolve
  \/ UpsertUser

SpecConc == Init /\ [][NextConc]_vars

\* first registrations that carry nothing but the uid, as the requests that create
\* the users GET /payments is asked about
BeginRegistration ==
  \E p \in Procs, uid \in Uids : begin_create_or_update_user(p, uid, [f \in {} |-> None])

NextConcPayments ==
  \/ BeginRegistration
  \/ Generate
  \/ UpsertUser
  \/ BeginGetPayments
  \/ CheckUser
  \/ InsertPayment

SpecConcPayments == Init /\ [][NextConcPayments]_vars

(***************************************************************************)
(* The properties.                                                         *)
(***************************************************************************)
Stored(coll, uid) == find_one(coll, "firebase_uid", uid)

Indices(coll) == 1..Len(coll)

\* C1: after any sequence of POST /user_data requests handled one at a time, no two
\* stored user documents with different firebase_uid carry the same referral_code.
ReferralCodesUnique ==
  \A i, j \in Indices(user_data) :
    user_data[i].firebase_uid # user_data[j].firebase_uid
      => user_data[i].referral_code # user_data[j].referral_code

TwoUsersStored ==
  \E i, j \in Indices(user_data) : user_data[i].firebase_uid # user_data[j].firebase_uid

\* C2: once a user document exists for a firebase_uid, no step changes its stored
\* referral_code, and a POST /user_data for that firebase_uid answers 200 with that code.
ReferralCodeImmutable ==
  [][\A uid \in Uids :
       LET before == Stored(user_data, uid)
           after == Stored(user_data', uid)
       IN before # NoDoc =>
            /\ after # NoDoc
            /\ after.referral_code = before.referral_code
            /\ \A body \in Bodies :
                 \/ /\ response'.status = 200
                    /\ response'.body.referral_code = before.referral_code
                 \/ ~create_or_update_user(uid, body)]_vars

UserUpdated ==
  /\ response.op = "create_or_update_user"
  /\ response.status = 200
  /\ response.body.message = "User updated"

\* C3: a POST /user_data for a firebase_uid with no stored user, whose non-empty
\* reference_code is no stored user's referral_code, answers 400 and leaves the user
\* collection as it was.
InvalidReferenceRejected ==
  [][\A uid \in Uids, body \in Bodies :
       ( /\ \A i \in Indices(user_data) : user_data[i].firebase_uid # uid
         /\ "reference_code" \in DOMAIN body
         /\ body.reference_code \notin {None, ""}
         /\ \A i \in Indices(user_data) : user_data[i].referral_code # body.reference_code
         /\ create_or_update_user(uid, body) )
       => /\ response'.status = 400
          /\ user_data' = user_data]_vars

RegistrationRejected ==
  /\ response.op = "create_or_update_user"
  /\ response.status = 400

\* C4: for an existing user U, GET /team answers with level_1 exactly the users whose
\* reference_code is U's referral_code, level_2 exactly the users whose reference_code is
\* the referral_code of a level_1 user, level_3 exactly those whose reference_code is the
\* referral_code of a level_2 user (all three empty when nobody references U).
Referred(I) ==
  {i \in Indices(user_data) :
     \E j \in I : user_data[i].reference_code = user_data[j].referral_code}

IsExactly(list, I) ==
  /\ Len(list) = Cardinality(I)
  /\ Range(list) =
       {[name |-> user_data[i].name, referral_code |-> user_data[i].referral_code] : i \in I}

TeamLevelsExact ==
  [][\A uid \in Uids :
       (get_team(uid) /\ Stored(user_data, uid) # NoDoc) =>
         LET U == {i \in Indices(user_data) : user_data[i].firebase_uid = uid}
         IN /\ response'.status = 200
            /\ IsExactly(response'.body.level_1, Referred(U))
            /\ IsExactly(response'.body.level_2, Referred(Referred(U)))
            /\ IsExactly(response'.body.level_3, Referred(Referred(Referred(U))))
            /\ (Referred(U) = {} =>
                  /\ response'.body.level_1 = <<>>
                  /\ response'.body.level_2 = <<>>
                  /\ response'.body.level_3 = <<>>)]_vars

TeamOfThreeLevels ==
  /\ response.op = "get_team"
  /\ response.status = 200
  /\ response.body.level_1 # <<>>
  /\ response.body.level_2 # <<>>
  /\ response.body.level_3 # <<>>

\* C5: a POST /user_data for a firebase_uid that has a stored user leaves that user's
\* payment_status, referred_by and reference_code_used as they were, and every other
\* user's document unchanged.
SetOnInsertFieldsPreserved ==
  [][\A uid \in Uids :
       Stored(user_data, uid) # NoDoc =>
         \/ /\ Len(user_data') = Len(user_data)
            /\ \A i \in Indices(user_data) :
                 IF user_data[i].firebase_uid = uid
                 THEN /\ user_data'[i].payment_status = user_data[i].payment_status
                      /\ user_data'[i].referred_by = user_data[i].referred_by
                      /\ user_data'[i].reference_code_used = user_data[i].reference_code_used
                 ELSE user_data'[i] = user_data[i]
         \/ \A body \in Bodies : ~create_or_update_user(uid, body)]_vars

ReferredUserUpdated ==
  /\ response.op = "create_or_update_user"
  /\ response.status = 200
  /\ response.body.message = "User updated"
  /\ response.body.reference_code_used # None
  /\ Len(user_data) >= 2

\* C6: on a POST /user_data for a firebase_uid that has a stored user, every profile
\* field the request omits keeps the value stored before the call.
OmittedFieldsKept ==
  [][\A uid \in Uids, body \in Bodies :
       (create_or_update_user(uid, body) /\ Stored(user_data, uid) # NoDoc) =>
         \A f \in ProfileFields \ DOMAIN body :
           Stored(user_data', uid)[f] = Stored(user_data, uid)[f]]_vars

\* C7: the withdrawal-request collection is append-only.  A POST /withdrawal_request
\* keeps the stored records and adds exactly one, carrying the request's firebase_uid
\* and amount and the user's stored name, when the user exists; it adds none and
\* answers 404 when not.  No other endpoint changes the collection.
WithdrawalsAppendOnly ==
  [][/\ \A uid \in Uids, amount \in Amounts :
          raise_withdrawal_request(uid, amount) =>
            IF \E i \in Indices(user_data) : user_data[i].firebase_uid = uid
            THEN /\ Len(withdrawal_requests') = Len(withdrawal_requests) + 1
                 /\ SubSeq(withdrawal_requests', 1, Len(withdrawal_requests))
                      = withdrawal_requests
                 /\ LET added == withdrawal_requests'[Len(withdrawal_requests')]
                    IN /\ added.firebase_uid = uid
                       /\ added.amount = amount
                       /\ \E i \in Indices(user_data) :
                            /\ user_data[i].firebase_uid = uid
                            /\ added.name = user_data[i].name
            ELSE /\ withdrawal_requests' = withdrawal_requests
                 /\ response'.status = 404
      /\ (PostUserData \/ GetUser \/ GetTeam \/ GetPayments)
           => withdrawal_requests' = withdrawal_requests]_vars

SecondWithdrawalStored ==
  /\ Len(withdrawal_requests) >= 2
  /\ response.op = "raise_withdrawal_request"
  /\ response.body = [message |-> "Withdrawal request submitted",
                      request |-> withdrawal_requests[Len(withdrawal_requests)]]

\* C8: when two first registrations for different firebase_uids run with their
\* database calls interleaved, the two resulting documents never carry the same
\* referral_code.
ConcurrentReferralCodesUnique ==
  \A i, j \in Indices(user_data) :
    (i # j /\ user_data[i].firebase_uid # user_data[j].firebase_uid)
      => user_data[i].referral_code # user_data[j].referral_code

\* C9: every stored user's reference_code is empty or null, or is the referral_code of
\* some stored user other than itself.
ReferenceCodeIsLink ==
  \A i \in Indices(user_data) :
    \/ user_data[i].reference_code \in {None, ""}
    \/ \E j \in Indices(user_data) :
         /\ user_data[j].firebase_uid # user_data[i].firebase_uid
         /\ user_data[j].referral_code = user_data[i].reference_code

\* C10: there is at most one payment document per firebase_uid, also when GET /payments
\* requests interleave, and no payment document for a firebase_uid that has no user.
OnePaymentDocPerUid ==
  /\ \A i, j \in Indices(user_payments) :
       user_payments[i].firebase_uid = user_payments[j].firebase_uid => i = j
  /\ \A i \in Indices(user_payments) :
       \E k \in Indices(user_data) :
         user_data[k].firebase_uid = user_payments[i].firebase_uid

====
